---- MODULE Spec2Model ----
(***************************************************************************)
(* Weather dashboard: the two-stage lookup (geocode, then weather or       *)
(* forecast) of app/main.py, app/api/weather.py and                        *)
(* app/services/weather.py, one asynchronous task per inbound request.     *)
(*                                                                         *)
(* JSON objects are functions from keys to values, JSON arrays are         *)
(* sequences, Python's None is the value None.  An outbound call's answer  *)
(* is [kind, body]: kind "ok" (a 2xx response with its JSON body),         *)
(* "status" (a non-2xx response), "timeout" or "transport".                *)
(***************************************************************************)
EXTENDS Integers, Sequences, FiniteSets, TLC

(* ------------------------------ bounds --------------------------------- *)

\* Inbound requests in flight together.
NumReq == 2
\* Longest list of 3-hour samples a forecast answer carries.
MaxSamples == 3
\* Samples start at StartDt and lie on slots 0..MaxSlot of 3 hours each.
MaxSlot == 3

(* ------------------------- program constants --------------------------- *)

\* "limit" of WeatherService.get_location's geocoding query.
GeoLimit == 5
\* "limit" of WeatherService.get_weather's geocoding query.
GeoLimitOne == 1

SecondsPerDay == 24 * 3600
SampleStep == 3 * 3600
\* 18:00 UTC of day 0: slots 0..3 are 18:00, 21:00, 00:00 and 03:00.
StartDt == 18 * 3600
\* Offsets of the server's local time zone from UTC.
TzOffsets == {0, 8 * 3600}

Reqs == 1..NumReq

(* ------------------------------ values --------------------------------- *)

None == [py |-> "None"]
EmptyDict == [k \in {} |-> 0]

Get(d, k, default) == IF k \in DOMAIN d THEN d[k] ELSE default

Ok(body) == [kind |-> "ok", body |-> body]
Fail(kind) == [kind |-> kind, body |-> EmptyDict]
NoAnswer == [kind |-> "none", body |-> EmptyDict]
FailureKinds == {"status", "timeout", "transport"}

\* A function's outcome: a returned value or a raised exception.
Return(v) == [raised |-> FALSE, value |-> v]
Raise(e) == [raised |-> TRUE, exc |-> e]

HTTPException(status, detail) ==
    [type |-> "HTTPException", status |-> status, detail |-> detail]
Exc(type) == [type |-> type, status |-> 0, detail |-> <<type>>]
\* str(e) of an exception that is not an HTTPException.
StrOf(e) == e.type

ErrorResponse(e) == [status |-> e.status, detail |-> e.detail, body |-> None]
OkResponse(body) == [status |-> 200, detail |-> <<>>, body |-> body]
NoResponse == [status |-> 0, detail |-> <<>>, body |-> None]

(* ------------------------------ routing -------------------------------- *)

\* The router's routes registered ahead of main's handler.
RouteTable_RouterFirst ==
    << [handler |-> "get_weather", prefix |-> <<>>],
       [handler |-> "get_monthly_weather", prefix |-> <<"monthly">>],
       [handler |-> "get_city_weather", prefix |-> <<>>] >>

\* A {city} parameter that would also take the empty segment.
RouteMatches_AllowEmpty(route, path) ==
    /\ Len(path) = Len(route.prefix) + 1
    /\ \A i \in 1..Len(route.prefix) : path[i] = route.prefix[i]

\* A request path is the sequence of segments after /api/weather/.
\* Routes in registration order: main's handler, then the weather router's.
RouteTable ==
    << [handler |-> "get_city_weather", prefix |-> <<>>],
       [handler |-> "get_weather", prefix |-> <<>>],
       [handler |-> "get_monthly_weather", prefix |-> <<"monthly">>] >>

\* {city} takes one non-empty segment.
RouteMatches(route, path) ==
    /\ Len(path) = Len(route.prefix) + 1
    /\ \A i \in 1..Len(route.prefix) : path[i] = route.prefix[i]
    /\ path[Len(path)] # ""

\* The first registered route that matches answers; none: the framework's 404.
Dispatch(path) ==
    LET hits == {i \in 1..Len(RouteTable) : RouteMatches(RouteTable[i], path)}
    IN  IF hits = {} THEN "not_found"
        ELSE RouteTable[CHOOSE i \in hits : \A j \in hits : i <= j].handler

NotFoundResponse == [status |-> 404, detail |-> <<"Not Found">>, body |-> None]

(* ---------------------------- geocoding -------------------------------- *)

LocationFields == {"lat", "lon", "name", "country"}

\* The last match taken instead of the first.
FirstLocation_Last(locations) == locations[Len(locations)]

\* The canonical match of a non-empty geocoding result.
FirstLocation(locations) == locations[1]

\* WeatherService.get_location: the four fields of the first match, or None
\* (no match, or any exception: transport, raise_for_status, KeyError).
WeatherService_get_location(ans) ==
    IF ans.kind # "ok" THEN None
    ELSE IF ans.body = <<>> THEN None
    ELSE LET location == FirstLocation(ans.body)
         IN  IF LocationFields \subseteq DOMAIN location
             THEN [k \in LocationFields |-> location[k]]
             ELSE None

\* LocationData(**d).dict(): the four required fields, extra ones allowed.
LocationData(d) ==
    IF LocationFields \subseteq DOMAIN d
    THEN Return(d)
    ELSE Raise(Exc("ValidationError"))

\* main.get_location: the location as a dict, or None (also on any exception).
main_get_location(ans) ==
    LET location_data == WeatherService_get_location(ans)
    IN  IF location_data # None
        THEN LET m == LocationData(location_data)
             IN  IF m.raised THEN None ELSE m.value
        ELSE None

(* -------------------------- current weather ---------------------------- *)

\* A get_weather without response.raise_for_status(): the body of a rejected
\* call is returned as if it were a report.
main_get_weather_NoStatusCheck(ans) ==
    CASE ans.kind = "timeout" ->
            Raise(HTTPException(504, <<"Request timeout">>))
      [] ans.kind = "transport" ->
            Raise(HTTPException(500, <<"Internal server error: ",
                                       StrOf(Exc("ConnectError"))>>))
      [] OTHER -> Return(ans.body)

\* main.get_weather: the provider's payload, or an HTTPException.
main_get_weather(ans) ==
    CASE ans.kind = "timeout" ->
            Raise(HTTPException(504, <<"Request timeout">>))
      [] ans.kind = "status" ->
            Raise(HTTPException(500, <<StrOf(Exc("HTTPStatusError"))>>))
      [] ans.kind = "transport" ->
            Raise(HTTPException(500, <<"Internal server error: ",
                                       StrOf(Exc("ConnectError"))>>))
      [] OTHER -> Return(ans.body)

WeatherDataRequired ==
    {"coord", "weather", "base", "main", "visibility", "wind", "clouds",
     "dt", "sys", "timezone", "id", "name", "cod"}
WeatherDataOptional == {"rain", "location"}
MainRequired ==
    {"temp", "feels_like", "temp_min", "temp_max", "pressure", "humidity"}
MainOptional == {"sea_level", "grnd_level"}
WindRequired == {"speed", "deg"}
WindOptional == {"gust"}
DescriptionRequired == {"id", "main", "description", "icon"}

\* A model without Config (MainWeatherData, WindData, WeatherDescription):
\* keys it does not name are ignored, absent optional ones default to None.
NestedModel(d, required, optional) ==
    [k \in required \cup optional |-> IF k \in DOMAIN d THEN d[k] ELSE None]

\* A model with extra = "allow": keys it does not name are kept.
ExtraKeys(d, named) == DOMAIN d \ named

\* A WeatherData with extra = "forbid": a key it does not name is an error.
WeatherData_ForbidExtra(d) ==
    IF \/ ~(WeatherDataRequired \subseteq DOMAIN d)
       \/ ExtraKeys(d, WeatherDataRequired \cup WeatherDataOptional) # {}
       \/ ~(MainRequired \subseteq DOMAIN d.main)
       \/ ~(WindRequired \subseteq DOMAIN d.wind)
       \/ \E i \in 1..Len(d.weather) :
             ~(DescriptionRequired \subseteq DOMAIN d.weather[i])
    THEN Raise(Exc("ValidationError"))
    ELSE Return([k \in WeatherDataRequired \cup WeatherDataOptional |->
            CASE k = "main" -> NestedModel(d.main, MainRequired, MainOptional)
              [] k = "wind" -> NestedModel(d.wind, WindRequired, WindOptional)
              [] k = "weather" ->
                    [i \in 1..Len(d.weather) |->
                        NestedModel(d.weather[i], DescriptionRequired, {})]
              [] k \in DOMAIN d /\ k \notin {"main", "wind", "weather"} -> d[k]
              [] OTHER -> None])

\* WeatherData(**d) as FastAPI serialises it, or a ValidationError.
WeatherData(d) ==
    IF \/ ~(WeatherDataRequired \subseteq DOMAIN d)
       \/ ~(MainRequired \subseteq DOMAIN d.main)
       \/ ~(WindRequired \subseteq DOMAIN d.wind)
       \/ \E i \in 1..Len(d.weather) :
             ~(DescriptionRequired \subseteq DOMAIN d.weather[i])
    THEN Raise(Exc("ValidationError"))
    ELSE LET named == WeatherDataRequired \cup WeatherDataOptional
         IN  Return([k \in named \cup ExtraKeys(d, named) |->
                CASE k = "main" ->
                        NestedModel(d.main, MainRequired, MainOptional)
                  [] k = "wind" ->
                        NestedModel(d.wind, WindRequired, WindOptional)
                  [] k = "weather" ->
                        [i \in 1..Len(d.weather) |->
                            NestedModel(d.weather[i], DescriptionRequired, {})]
                  [] k \in DOMAIN d /\ k \notin {"main", "wind", "weather"} ->
                        d[k]
                  [] OTHER -> None])

\* The payload returned without the location merged in.
MergeLocation_Missing(weather_data, location_dict) ==
    [k \in DOMAIN weather_data \cup {"location"} |->
        IF k \in DOMAIN weather_data THEN weather_data[k] ELSE None]

\* weather_dict = dict(weather_data); weather_dict["location"] = location_dict
MergeLocation(weather_data, location_dict) ==
    [k \in DOMAIN weather_data \cup {"location"} |->
        IF k = "location" THEN location_dict ELSE weather_data[k]]

(* ------------------------------ forecast ------------------------------- *)

\* datetime.fromtimestamp(dt).strftime('%Y-%m-%d'): the local calendar day.
DateOf(dt, tz) == (dt + tz) \div SecondsPerDay

\* The keys the seeding of a day reads from a sample.
SeedReadable(item) ==
    /\ {"main", "weather", "wind"} \subseteq DOMAIN item
    /\ {"temp", "temp_min", "temp_max", "humidity"} \subseteq DOMAIN item.main
    /\ "speed" \in DOMAIN item.wind

\* The entry a day's first sample seeds.
SeedEntry(item) ==
    [dt |-> item.dt,
     temp |-> [day |-> item.main.temp,
               min |-> item.main.temp_min,
               max |-> item.main.temp_max],
     humidity |-> item.main.humidity,
     weather |-> item.weather,
     speed |-> item.wind.speed,
     rain |-> Get(Get(item, "rain", EmptyDict), "3h", 0)]

\* A loop that never finds the date in daily_data.
DateSeen_Never(daily_data, date) == FALSE

\* daily_data is an insertion-ordered dict: a sequence of [date, entry].
DateSeen(daily_data, date) ==
    \E i \in 1..Len(daily_data) : daily_data[i].date = date

\* The loop over data['list'] from sample i on: the dict built, or the dict
\* built so far when a sample raises KeyError.
RECURSIVE AggregateFrom(_, _, _, _)
AggregateFrom(items, i, daily_data, tz) ==
    IF i > Len(items) THEN [raised |-> FALSE, daily_data |-> daily_data]
    ELSE IF "dt" \notin DOMAIN items[i]
    THEN [raised |-> TRUE, daily_data |-> daily_data]
    ELSE LET date == DateOf(items[i].dt, tz)
         IN  IF DateSeen(daily_data, date)
             THEN AggregateFrom(items, i + 1, daily_data, tz)
             ELSE IF ~SeedReadable(items[i])
             THEN [raised |-> TRUE, daily_data |-> daily_data]
             ELSE AggregateFrom(items, i + 1,
                      Append(daily_data,
                             [date |-> date, entry |-> SeedEntry(items[i])]),
                      tz)

\* A report that counts the samples received instead of the days kept.
ForecastResult_CntSamples(data, daily_data) ==
    [city |-> data.city,
     cod |-> data.cod,
     message |-> 0,
     cnt |-> Len(data.list),
     list |-> [i \in 1..Len(daily_data) |-> daily_data[i].entry]]

\* The report of a finished aggregation.
ForecastResult(data, daily_data) ==
    [city |-> data.city,
     cod |-> data.cod,
     message |-> 0,
     cnt |-> Len(daily_data),
     list |-> [i \in 1..Len(daily_data) |-> daily_data[i].entry]]

\* An except clause that returns the days aggregated so far.
ForecastOnException_Partial(data, daily_data) ==
    IF {"city", "cod"} \subseteq DOMAIN data
    THEN ForecastResult(data, daily_data)
    ELSE None

\* except Exception: return None, whatever daily_data holds by then.
ForecastOnException(data, daily_data) == None

\* WeatherService.get_monthly_forecast: the report, or None.
get_monthly_forecast(ans, tz) ==
    IF ans.kind # "ok" THEN None
    ELSE LET data == ans.body
         IN  IF "list" \notin DOMAIN data THEN None
             ELSE LET agg == AggregateFrom(data.list, 1, <<>>, tz)
                  IN  IF agg.raised \/ ~({"city", "cod"} \subseteq DOMAIN data)
                      THEN ForecastOnException(data, agg.daily_data)
                      ELSE ForecastResult(data, agg.daily_data)

(* ------------------------------ handlers ------------------------------- *)

\* A handler without "except HTTPException: raise e".
get_city_weather_except_NoReraise(e) ==
    HTTPException(500, <<"Internal server error: ", StrOf(e)>>)

\* get_city_weather: "except HTTPException: raise e", anything else is a 500.
get_city_weather_except(e) ==
    IF e.type = "HTTPException" THEN e
    ELSE HTTPException(500, <<"Internal server error: ", StrOf(e)>>)

\* get_monthly_weather: "except Exception" (an HTTPException is one too).
get_monthly_weather_except(e) ==
    HTTPException(500, <<"Internal server error">>)

\* The weather router's get_weather: "except Exception".
api_get_weather_except(e) ==
    HTTPException(500, <<"Internal server error: ", StrOf(e)>>)

\* The not-found outcome of the weather router's handler, in main's place.
CityNotFound_AsServerError ==
    HTTPException(500, <<"Internal server error: City not found">>)

\* What get_city_weather raises when get_location yields nothing.
CityNotFound == HTTPException(404, <<"City not found">>)

\* What get_monthly_weather raises when get_location yields nothing.
MonthlyCityNotFound(city) == HTTPException(404, <<"City '", city, "' not found">>)

\* What get_monthly_weather raises when get_monthly_forecast yields nothing.
ForecastFailed == HTTPException(500, <<"Failed to fetch forecast data">>)

\* A handler's check of its city argument, before its try block or inside it:
\* the response that ends the request, or NoResponse to go on.
CityCheck(h, city) ==
    CASE city # "" -> NoResponse
      [] h = "get_city_weather" ->
            ErrorResponse(get_city_weather_except(
                HTTPException(422, <<"City name cannot be empty">>)))
      [] h = "get_monthly_weather" ->
            ErrorResponse(HTTPException(404, <<"City not found">>))
      [] OTHER -> ErrorResponse(HTTPException(404, <<"Not Found">>))

\* The geocoding call issued once more.
GeocodeCalls_Repeated(h, city) ==
    << [q |-> city, limit |-> GeoLimit], [q |-> city, limit |-> GeoLimit] >>

\* The geocoding calls a handler issues for a city: one GET of /direct.
GeocodeCalls(h, city) ==
    << [q |-> city,
        limit |-> IF h = "get_weather" THEN GeoLimitOne ELSE GeoLimit] >>

\* The location a handler works with after the geocoding answer, or None.
ResolvedLocation(h, ans) ==
    CASE h = "get_city_weather" -> main_get_location(ans)
      [] h = "get_monthly_weather" -> WeatherService_get_location(ans)
      [] OTHER ->
            IF ans.kind = "ok" /\ ans.body # <<>>
               /\ {"lat", "lon"} \subseteq DOMAIN FirstLocation(ans.body)
            THEN FirstLocation(ans.body)
            ELSE None

\* The response of a handler whose geocoding step yields no location.
UnresolvedResponse(h, city) ==
    CASE h = "get_city_weather" ->
            ErrorResponse(get_city_weather_except(CityNotFound))
      [] h = "get_monthly_weather" ->
            ErrorResponse(get_monthly_weather_except(MonthlyCityNotFound(city)))
      [] OTHER ->
            ErrorResponse(api_get_weather_except(
                HTTPException(500, <<"Internal server error: City not found">>)))

\* The coordinates passed in the wrong order.
FetchCalls_Swapped(h, loc) ==
    << [endpoint |-> IF h = "get_monthly_weather" THEN "forecast" ELSE "weather",
        lat |-> loc.lon,
        lon |-> loc.lat] >>

\* The weather or forecast calls a handler issues for a resolved location.
FetchCalls(h, loc) ==
    << [endpoint |-> IF h = "get_monthly_weather" THEN "forecast" ELSE "weather",
        lat |-> loc.lat,
        lon |-> loc.lon] >>

\* get_city_weather after the weather answer: [fetched, response].
CityWeatherResult(loc, ans) ==
    LET w == main_get_weather(ans)
    IN  IF w.raised
        THEN [fetched |-> None,
              response |-> ErrorResponse(get_city_weather_except(w.exc))]
        ELSE LET m == WeatherData(MergeLocation(w.value, loc))
             IN  [fetched |-> w.value,
                  response |->
                    IF m.raised
                    THEN ErrorResponse(get_city_weather_except(m.exc))
                    ELSE OkResponse(m.value)]

\* The router's get_weather after the weather answer (WeatherService.get_weather).
ApiWeatherResult(loc, ans) ==
    IF ans.kind = "ok" /\ LocationFields \subseteq DOMAIN loc
    THEN LET data == MergeLocation(ans.body,
                                   [k \in LocationFields |-> loc[k]])
         IN  [fetched |-> data, response |-> OkResponse(data)]
    ELSE [fetched |-> None,
          response |-> ErrorResponse(api_get_weather_except(
              HTTPException(500, <<"Internal server error: City not found">>)))]

\* A handler that returns the forecast without the "if not forecast" check.
MonthlyResult_Unchecked(ans, tz) ==
    LET forecast == get_monthly_forecast(ans, tz)
    IN  [fetched |-> forecast, response |-> OkResponse(forecast)]

\* get_monthly_weather after the forecast answer: [fetched, response].
MonthlyResult(ans, tz) ==
    LET forecast == get_monthly_forecast(ans, tz)
    IN  [fetched |-> forecast,
         response |->
            IF forecast = None
            THEN ErrorResponse(get_monthly_weather_except(ForecastFailed))
            ELSE OkResponse(forecast)]

(* ------------------------------- inputs -------------------------------- *)

Cities == {"London", "Atlantis"}

\* /api/weather/, /api/weather/{city} and /api/weather/monthly/{city}.
Paths ==
    {<<"">>} \cup {<<c>> : c \in Cities} \cup {<<"monthly", c>> : c \in Cities}

\* Geocoding matches: the provider sends more keys than the four that are read.
Match(lat, lon, name, country) ==
    [lat |-> lat, lon |-> lon, name |-> name, country |-> country,
     state |-> "-"]
London == Match(51, 0, "London", "GB")
Beijing == Match(39, 116, "Beijing", "CN")

GeoAnswers ==
    {Ok(<<>>), Ok(<<London>>), Ok(<<Beijing, London>>)}
        \cup {Fail(k) : k \in FailureKinds}

\* A current-weather payload: gust and rain are optional, "snow" is a key the
\* schema does not name, "temp_kf" a key MainWeatherData does not name.  A
\* scalar is a token standing for a value of the type the schema gives its key.
Payload(gust, rain, snow, temp_kf, missing) ==
    LET main == [k \in MainRequired \cup MainOptional
                        \cup (IF temp_kf THEN {"temp_kf"} ELSE {}) |-> "m-" \o k]
        wind == [k \in WindRequired \cup (IF gust THEN {"gust"} ELSE {})
                    |-> "w-" \o k]
        keys == (WeatherDataRequired
                    \cup (IF rain THEN {"rain"} ELSE {})
                    \cup (IF snow THEN {"snow"} ELSE {})) \ missing
    IN  [k \in keys |->
            CASE k = "main" -> main
              [] k = "wind" -> wind
              [] k = "weather" -> << [j \in DescriptionRequired |-> "d-" \o j] >>
              [] k = "coord" -> [lat |-> "c-lat", lon |-> "c-lon"]
              [] k = "clouds" -> [all |-> "75"]
              [] k = "sys" -> [sunrise |-> "s-rise", sunset |-> "s-set"]
              [] k \in {"rain", "snow"} -> [h |-> "0.5"]
              [] OTHER -> "v-" \o k]

WeatherAnswers ==
    {Ok(Payload(TRUE, FALSE, FALSE, FALSE, {})),
     Ok(Payload(TRUE, FALSE, FALSE, FALSE, {"visibility"}))}
        \cup {Fail(k) : k \in FailureKinds}

RichWeatherAnswers ==
    {Ok(Payload(g, r, s, t, m)) :
        g \in BOOLEAN, r \in BOOLEAN, s \in BOOLEAN, t \in BOOLEAN,
        m \in {{}, {"visibility"}, {"main"}}}
        \cup {Fail(k) : k \in FailureKinds}

\* A 3-hour sample on a slot: "plain" has no rain key, "rain3h" a 3h volume,
\* "rain1h" a rain object without 3h, "broken" no main object.
SampleKinds == {"plain", "rain3h", "rain1h", "broken"}
Sample(slot, kind) ==
    LET keys == ({"dt", "main", "weather", "wind"}
                    \cup (IF kind \in {"rain3h", "rain1h"} THEN {"rain"} ELSE {}))
                \ (IF kind = "broken" THEN {"main"} ELSE {})
    IN  [k \in keys |->
            CASE k = "dt" -> StartDt + slot * SampleStep
              [] k = "main" -> [temp |-> 280 + slot, temp_min |-> 270 + slot,
                                temp_max |-> 290 + slot, humidity |-> 50 + slot]
              [] k = "weather" -> << [id |-> 800 + slot] >>
              [] k = "wind" -> [speed |-> 1 + slot]
              [] OTHER -> IF kind = "rain3h" THEN [h3 \in {"3h"} |-> 1 + slot]
                          ELSE [h1 \in {"1h"} |-> 1 + slot]]

Samples == {Sample(slot, kind) : slot \in 0..MaxSlot, kind \in SampleKinds}

Chronological(items) ==
    \A i \in 1..Len(items) - 1 : items[i].dt <= items[i + 1].dt

SampleLists ==
    {items \in UNION {[1..n -> Samples] : n \in 0..MaxSamples} :
        Chronological(items)}

ForecastBody(items) ==
    [city |-> [name |-> "London"], cod |-> "200", list |-> items]

ForecastAnswers ==
    {Ok(ForecastBody(<<Sample(0, "plain"), Sample(1, "rain3h"),
                       Sample(2, "plain")>>)),
     Ok(ForecastBody(<<Sample(0, "plain"), Sample(2, "broken")>>)),
     Fail("status"), Fail("timeout")}

RichForecastAnswers ==
    {Ok(ForecastBody(items)) : items \in SampleLists}
        \cup {Ok([cod |-> "200", list |-> items]) :
                items \in {l \in SampleLists : Len(l) <= 1}}
        \cup {Ok([cod |-> "404"])}
        \cup {Fail(k) : k \in FailureKinds}

(* ------------------------------- state --------------------------------- *)

VARIABLES
    pc,           \* per request: "idle", "geocoding", "fetching" or "done"
    path,         \* per request: the path it asked for
    handler,      \* per request: the handler the routing gave it
    geoCalls,     \* per request: the geocoding calls it has issued
    fetchCalls,   \* per request: the weather and forecast calls it has issued
    geoAnswer,    \* per request: the answer to its geocoding call
    fetchAnswer,  \* per request: the answer to its weather or forecast call
    location,     \* per request: the handler's location, or None
    fetched,      \* per request: the value get_weather / get_monthly_forecast gave
    response,     \* per request: the response sent
    tzOffset      \* the server's local time zone

vars == <<pc, path, handler, geoCalls, fetchCalls, geoAnswer, fetchAnswer,
          location, fetched, response, tzOffset>>

CityOf(r) == path[r][Len(path[r])]

Init ==
    /\ pc = [r \in Reqs |-> "idle"]
    /\ path = [r \in Reqs |-> <<>>]
    /\ handler = [r \in Reqs |-> "none"]
    /\ geoCalls = [r \in Reqs |-> <<>>]
    /\ fetchCalls = [r \in Reqs |-> <<>>]
    /\ geoAnswer = [r \in Reqs |-> NoAnswer]
    /\ fetchAnswer = [r \in Reqs |-> NoAnswer]
    /\ location = [r \in Reqs |-> None]
    /\ fetched = [r \in Reqs |-> None]
    /\ response = [r \in Reqs |-> NoResponse]
    /\ tzOffset \in TzOffsets

\* A location kept where every request reads it: the first one resolved.
HandlerLocation_Shared(r) ==
    LET set == {q \in Reqs : location[q] # None}
    IN  IF set = {} THEN location[r]
        ELSE location[CHOOSE q \in set : \A o \in set : q <= o]

\* location_data is a local of the handler's own task, and the WeatherService
\* it came from was built for this request and holds no location.
HandlerLocation(r) == location[r]

\* A geocoding answer remembered per city: no call once a request for the
\* same city has finished.
GeocodeCallsOf_Cached(r, h, city) ==
    IF \E q \in Reqs : q # r /\ pc[q] = "done" /\ path[q] # <<>>
                        /\ path[q][Len(path[q])] = city
    THEN <<>>
    ELSE GeocodeCalls(h, city)

\* The geocoding calls request r issues on entry: nothing is cached between
\* requests, so they are those of its handler.
GeocodeCallsOf(r, h, city) == GeocodeCalls(h, city)

\* A request arrives: routing, the handler's city check, the geocoding call.
Receive(r, p) ==
    /\ pc[r] = "idle"
    /\ LET h == Dispatch(p)
           city == p[Len(p)]
           early == IF h = "not_found" THEN NotFoundResponse
                    ELSE CityCheck(h, city)
       IN  /\ path' = [path EXCEPT ![r] = p]
           /\ handler' = [handler EXCEPT ![r] = h]
           /\ IF early # NoResponse
              THEN /\ response' = [response EXCEPT ![r] = early]
                   /\ pc' = [pc EXCEPT ![r] = "done"]
                   /\ UNCHANGED geoCalls
              ELSE /\ geoCalls' = [geoCalls EXCEPT
                                      ![r] = @ \o GeocodeCallsOf(r, h, city)]
                   /\ pc' = [pc EXCEPT ![r] = "geocoding"]
                   /\ UNCHANGED response
    /\ UNCHANGED <<fetchCalls, geoAnswer, fetchAnswer, location, fetched,
                   tzOffset>>

\* The geocoding call returns: the request ends, or issues its second call.
GeoReturn(r, ans) ==
    /\ pc[r] = "geocoding"
    /\ geoAnswer' = [geoAnswer EXCEPT ![r] = ans]
    /\ LET loc == ResolvedLocation(handler[r], ans)
       IN  IF loc = None
           THEN /\ response' = [response EXCEPT
                                   ![r] = UnresolvedResponse(handler[r], CityOf(r))]
                /\ pc' = [pc EXCEPT ![r] = "done"]
                /\ UNCHANGED <<location, fetchCalls>>
           ELSE /\ location' = [location EXCEPT ![r] = loc]
                /\ fetchCalls' = [fetchCalls EXCEPT
                                     ![r] = @ \o FetchCalls(handler[r], loc)]
                /\ pc' = [pc EXCEPT ![r] = "fetching"]
                /\ UNCHANGED response
    /\ UNCHANGED <<path, handler, geoCalls, fetchAnswer, fetched, tzOffset>>

\* The current-weather call returns: the handler builds its response.
WeatherReturn(r, ans) ==
    /\ pc[r] = "fetching"
    /\ handler[r] \in {"get_city_weather", "get_weather"}
    /\ fetchAnswer' = [fetchAnswer EXCEPT ![r] = ans]
    /\ LET res == IF handler[r] = "get_city_weather"
                  THEN CityWeatherResult(HandlerLocation(r), ans)
                  ELSE ApiWeatherResult(HandlerLocation(r), ans)
       IN  /\ fetched' = [fetched EXCEPT ![r] = res.fetched]
           /\ response' = [response EXCEPT ![r] = res.response]
    /\ pc' = [pc EXCEPT ![r] = "done"]
    /\ UNCHANGED <<path, handler, geoCalls, fetchCalls, geoAnswer, location,
                   tzOffset>>

\* The forecast call returns: aggregation, then the handler's response.
ForecastReturn(r, ans) ==
    /\ pc[r] = "fetching"
    /\ handler[r] = "get_monthly_weather"
    /\ fetchAnswer' = [fetchAnswer EXCEPT ![r] = ans]
    /\ LET res == MonthlyResult(ans, tzOffset)
       IN  /\ fetched' = [fetched EXCEPT ![r] = res.fetched]
           /\ response' = [response EXCEPT ![r] = res.response]
    /\ pc' = [pc EXCEPT ![r] = "done"]
    /\ UNCHANGED <<path, handler, geoCalls, fetchCalls, geoAnswer, location,
                   tzOffset>>

\* Requests handled concurrently, each suspended only at its outbound calls.
Next ==
    \E r \in Reqs :
        \/ \E p \in Paths : Receive(r, p)
        \/ \E ans \in GeoAnswers : GeoReturn(r, ans)
        \/ \E ans \in WeatherAnswers : WeatherReturn(r, ans)
        \/ \E ans \in ForecastAnswers : ForecastReturn(r, ans)

Spec == Init /\ [][Next]_vars

\* One request for a city's current weather, over every shape of payload.
NextReport ==
    \/ \E c \in Cities : Receive(1, <<c>>)
    \/ \E ans \in GeoAnswers : GeoReturn(1, ans)
    \/ \E ans \in RichWeatherAnswers : WeatherReturn(1, ans)

SpecReport == Init /\ [][NextReport]_vars

\* One request for a city's forecast, over every chronological sample list.
NextForecast ==
    \/ Receive(1, <<"monthly", "London">>)
    \/ GeoReturn(1, Ok(<<London>>))
    \/ \E ans \in RichForecastAnswers : ForecastReturn(1, ans)

SpecForecast == Init /\ [][NextForecast]_vars

\* An upstream that answers by the call it gets: the geocoder knows each city
\* of the concurrency test, the weather provider reports the coordinates it
\* was asked about; either call may also time out.
ConcurrentCities == {"London", "Beijing", "Tokyo"}
GeocoderMatch(city) ==
    CASE city = "London" -> London
      [] city = "Beijing" -> Beijing
      [] OTHER -> Match(35, 139, "Tokyo", "JP")
UpstreamGeo(city) == {Ok(<<GeocoderMatch(city)>>), Fail("timeout")}
PayloadAt(lat, lon) ==
    [Payload(TRUE, FALSE, FALSE, FALSE, {}) EXCEPT
        !.coord = [lat |-> lat, lon |-> lon]]
UpstreamWeather(call) == {Ok(PayloadAt(call.lat, call.lon)), Fail("timeout")}

\* Requests for different cities, their outbound calls interleaved at will.
NextConcurrent ==
    \E r \in Reqs :
        \/ \E c \in ConcurrentCities :
            /\ \A q \in Reqs : path[q] # <<c>>
            /\ Receive(r, <<c>>)
        \/ /\ pc[r] = "geocoding"
           /\ \E ans \in UpstreamGeo(CityOf(r)) : GeoReturn(r, ans)
        \/ /\ pc[r] = "fetching"
           /\ \E ans \in UpstreamWeather(fetchCalls[r][1]) : WeatherReturn(r, ans)

SpecConcurrent == Init /\ [][NextConcurrent]_vars

(* ------------------------------- claims -------------------------------- *)

\* Geocoding answers of every length up to the limit asked for, over matches
\* that include one whose coordinates no place has.
OutOfRange == Match(1000, 1000, "Nowhere", "ZZ")
GeoMatches == {London, Beijing, OutOfRange}
MatchLists == UNION {[1..n -> GeoMatches] : n \in 0..GeoLimit}
RichGeoAnswers ==
    {Ok(l) : l \in MatchLists} \cup {Fail(k) : k \in FailureKinds}

\* The provider checks the coordinates: outside the range of latitudes and
\* longitudes it answers a non-success status.
InRange(call) ==
    call.lat \in (-90)..90 /\ call.lon \in (-180)..180
ProviderAnswers(call) ==
    IF InRange(call)
    THEN {Ok(Payload(TRUE, FALSE, FALSE, FALSE, {})), Fail("status"),
          Fail("timeout")}
    ELSE {Fail("status")}

\* One request, any geocoding answer, the provider answering by coordinates.
NextGeo ==
    \/ \E p \in Paths : Receive(1, p)
    \/ \E ans \in RichGeoAnswers : GeoReturn(1, ans)
    \/ /\ pc[1] = "fetching"
       /\ \E ans \in ProviderAnswers(fetchCalls[1][1]) : WeatherReturn(1, ans)
    \/ \E ans \in ForecastAnswers : ForecastReturn(1, ans)

SpecGeo == Init /\ [][NextGeo]_vars

\* GET /api/weather/{city} with a non-empty city.
CurrentRequest(r) == Len(path[r]) = 1 /\ path[r][1] # ""
\* GET /api/weather/monthly/{city} with a non-empty city.
MonthlyRequest(r) ==
    Len(path[r]) = 2 /\ path[r][1] = "monthly" /\ path[r][2] # ""
Done(r) == pc[r] = "done"
GeoAnswered(r) == geoAnswer[r].kind # "none"
ZeroMatches(r) == geoAnswer[r].kind = "ok" /\ geoAnswer[r].body = <<>>
GeoFailed(r) == geoAnswer[r].kind \in FailureKinds
\* The four fields of the first match of the geocoding answer.
FirstMatchFields(r) == [k \in LocationFields |-> geoAnswer[r].body[1][k]]

\* C1: a current-weather request whose geocoding answer is a successful
\* empty list ends with 404 and detail "City not found".
C1_ZeroMatchesIsCityNotFound ==
    \A r \in Reqs :
        (CurrentRequest(r) /\ ZeroMatches(r))
            => /\ Done(r)
               /\ response[r].status = 404
               /\ response[r].detail = <<"City not found">>

C1_Witness ==
    \E r \in Reqs : CurrentRequest(r) /\ ZeroMatches(r) /\ Done(r)

\* C2: a forecast request whose city the geocoder cannot resolve ends with
\* 404.
C2_UnresolvedMonthlyIs404 ==
    \A r \in Reqs :
        (MonthlyRequest(r) /\ GeoAnswered(r)
            /\ WeatherService_get_location(geoAnswer[r]) = None)
            => (Done(r) /\ response[r].status = 404)

\* C3: a current-weather request whose geocoding call fails (transport,
\* timeout or non-success status) ends with 500, never with the 404 of a
\* successful empty answer.
C3_GeocodeFailureIsUpstreamError ==
    \A r \in Reqs :
        (CurrentRequest(r) /\ GeoFailed(r))
            => (Done(r) /\ response[r].status = 500)

\* C4: a current-weather request whose weather call times out ends with 504,
\* every other failure of that call ends with 500, and only a timeout gives
\* 504.
C4_TimeoutIs504 ==
    \A r \in Reqs :
        (CurrentRequest(r) /\ Done(r))
            => /\ fetchAnswer[r].kind = "timeout"
                    => /\ response[r].status = 504
                       /\ response[r].detail = <<"Request timeout">>
               /\ fetchAnswer[r].kind \in {"status", "transport"}
                    => response[r].status = 500
               /\ response[r].status = 504 => fetchAnswer[r].kind = "timeout"

C4_Witness ==
    \E r \in Reqs :
        CurrentRequest(r) /\ Done(r) /\ fetchAnswer[r].kind = "timeout"

\* C5: a request issues at most one geocoding call and at most one weather
\* or forecast call, whatever the answers: one geocoding call while it waits
\* for the geocoder, one of each while it waits for the weather provider.
C5_AtMostOneCallEach ==
    \A r \in Reqs :
        /\ Len(geoCalls[r]) <= 1
        /\ Len(fetchCalls[r]) <= 1
        /\ (pc[r] = "geocoding") => (Len(geoCalls[r]) = 1 /\ fetchCalls[r] = <<>>)
        /\ (pc[r] = "fetching") => (Len(geoCalls[r]) = 1 /\ Len(fetchCalls[r]) = 1)

C5_Witness ==
    \E r \in Reqs :
        /\ Done(r)
        /\ fetchAnswer[r].kind \in FailureKinds
        /\ Len(geoCalls[r]) = 1
        /\ Len(fetchCalls[r]) = 1

\* C6: a weather or forecast call exists only once the geocoding call has
\* returned a location, and carries that location's lat and lon; after a
\* geocoding answer without a location no such call is ever issued.
C6_FetchAfterGeocode ==
    \A r \in Reqs :
        /\ fetchCalls[r] # <<>>
            => /\ geoAnswer[r].kind = "ok"
               /\ geoAnswer[r].body # <<>>
               /\ location[r] # None
               /\ location[r].lat = geoAnswer[r].body[1].lat
               /\ location[r].lon = geoAnswer[r].body[1].lon
               /\ \A i \in 1..Len(fetchCalls[r]) :
                    /\ fetchCalls[r][i].lat = location[r].lat
                    /\ fetchCalls[r][i].lon = location[r].lon
        /\ (ZeroMatches(r) \/ GeoFailed(r))
            => (Done(r) /\ fetchCalls[r] = <<>>)

C6_Witness ==
    \E r \in Reqs :
        /\ pc[r] = "fetching"
        /\ Len(geoAnswer[r].body) = 2
        /\ fetchCalls[r][1].lat = geoAnswer[r].body[1].lat

\* C9: a forecast request whose city resolves and whose forecast fetch
\* yields nothing ends with 500.
C9_ForecastFailureIs500 ==
    \A r \in Reqs :
        (MonthlyRequest(r) /\ Done(r)
            /\ WeatherService_get_location(geoAnswer[r]) # None
            /\ fetched[r] = None)
            => response[r].status = 500

C9_Witness ==
    \E r \in Reqs :
        /\ MonthlyRequest(r) /\ Done(r)
        /\ location[r] # None
        /\ fetchAnswer[r].kind = "timeout"
        /\ fetched[r] = None

\* The samples of a forecast answer and the days of the report built from it.
SamplesOf(r) == fetchAnswer[r].body.list
DaysOf(r) == fetched[r].list
SampleDate(r, i) == DateOf(SamplesOf(r)[i].dt, tzOffset)
\* The samples that are the first of their calendar date.
FirstOfDate(r) ==
    {i \in 1..Len(SamplesOf(r)) : \A k \in 1..(i - 1) : SampleDate(r, k) # SampleDate(r, i)}
WellFormedSamples(r) ==
    \A i \in 1..Len(SamplesOf(r)) :
        "dt" \in DOMAIN SamplesOf(r)[i] /\ SeedReadable(SamplesOf(r)[i])
CompleteAnswer(r) ==
    /\ fetchAnswer[r].kind = "ok"
    /\ {"city", "cod", "list"} \subseteq DOMAIN fetchAnswer[r].body
RainOf(item) ==
    IF "rain" \in DOMAIN item /\ "3h" \in DOMAIN item.rain
    THEN item.rain["3h"] ELSE 0
SeededBy(entry, item) ==
    /\ entry.dt = item.dt
    /\ entry.temp.day = item.main.temp
    /\ entry.temp.min = item.main.temp_min
    /\ entry.temp.max = item.main.temp_max
    /\ entry.humidity = item.main.humidity
    /\ entry.weather = item.weather
    /\ entry.speed = item.wind.speed
    /\ entry.rain = RainOf(item)

\* C7: for a chronological list of well-formed samples the report lists one
\* entry per distinct calendar date, in the order the dates first appear,
\* each equal to the first sample of its date, with rain its 3h volume or 0.
C7_OneEntryPerDateFromFirstSample ==
    \A r \in Reqs :
        (MonthlyRequest(r) /\ Done(r) /\ CompleteAnswer(r) /\ WellFormedSamples(r))
            => /\ fetched[r] # None
               /\ Len(DaysOf(r)) = Cardinality({SampleDate(r, i) : i \in 1..Len(SamplesOf(r))})
               /\ \A j \in 1..Len(DaysOf(r)) :
                    \E i \in FirstOfDate(r) :
                        /\ Cardinality({k \in FirstOfDate(r) : k < i}) = j - 1
                        /\ SeededBy(DaysOf(r)[j], SamplesOf(r)[i])

C7_Witness ==
    \E r \in Reqs :
        /\ MonthlyRequest(r) /\ Done(r) /\ CompleteAnswer(r) /\ WellFormedSamples(r)
        /\ Len(SamplesOf(r)) = 3
        /\ Cardinality(FirstOfDate(r)) = 2
        /\ 2 \notin FirstOfDate(r)
        /\ SamplesOf(r)[2].dt # SamplesOf(r)[1].dt
        /\ Len(DaysOf(r)) = 2

\* A sample raises in the loop when it is the first of its date and cannot
\* seed an entry.
RaisesPartWay(r) ==
    \E i \in FirstOfDate(r) : ~SeedReadable(SamplesOf(r)[i])

\* C8: get_monthly_forecast returns None on a transport failure, a
\* non-success status or an exception part-way through aggregation; what it
\* returns otherwise covers the date of every sample of the answer.
C8_CompleteReportOrNone ==
    \A r \in Reqs :
        (MonthlyRequest(r) /\ Done(r))
            => /\ fetchAnswer[r].kind \in FailureKinds => fetched[r] = None
               /\ (fetchAnswer[r].kind = "ok"
                     /\ "list" \in DOMAIN fetchAnswer[r].body
                     /\ RaisesPartWay(r))
                    => fetched[r] = None
               /\ fetched[r] # None
                    => /\ CompleteAnswer(r)
                       /\ \A i \in 1..Len(SamplesOf(r)) :
                            \E j \in 1..Len(DaysOf(r)) :
                                DateOf(DaysOf(r)[j].dt, tzOffset) = SampleDate(r, i)

C8_Witness ==
    \E r \in Reqs :
        /\ MonthlyRequest(r) /\ Done(r) /\ CompleteAnswer(r)
        /\ Len(SamplesOf(r)) >= 2
        /\ SeedReadable(SamplesOf(r)[1])
        /\ RaisesPartWay(r)
        /\ fetched[r] = None

\* The report of a finished current-weather request and the payload it had.
ReportOf(r) == response[r].body
PayloadOf(r) == fetchAnswer[r].body
Succeeded(r) == CurrentRequest(r) /\ Done(r) /\ response[r].status = 200
ModelFields == {"main", "wind", "weather"}
\* A nested object as its model returns it: the keys the model names, the
\* provider's value where sent, None where not.
ShapedBy(out, in, named) ==
    /\ DOMAIN out = named
    /\ \A k \in named :
        /\ k \in DOMAIN in => out[k] = in[k]
        /\ k \notin DOMAIN in => out[k] = None

\* C10: a successful report's location is the resolved location and every
\* other top-level field of the payload is returned with the provider's
\* value.
C10_PayloadPassesThrough ==
    \A r \in Reqs :
        Succeeded(r)
            => /\ ReportOf(r).location = FirstMatchFields(r)
               /\ \A k \in DOMAIN PayloadOf(r) \ {"location"} :
                    k \in DOMAIN ReportOf(r) /\ ReportOf(r)[k] = PayloadOf(r)[k]

\* C10, amended: a successful report's location is the resolved location;
\* every top-level field of the payload other than main, wind and weather,
\* named by the schema or not, is returned with the provider's value; main,
\* wind and each weather entry are returned with the keys their model names.
C10_SchemaShapedReport ==
    \A r \in Reqs :
        Succeeded(r)
            => /\ ReportOf(r).location = FirstMatchFields(r)
               /\ \A k \in DOMAIN PayloadOf(r) \ ({"location"} \cup ModelFields) :
                    k \in DOMAIN ReportOf(r) /\ ReportOf(r)[k] = PayloadOf(r)[k]
               /\ ShapedBy(ReportOf(r).main, PayloadOf(r).main,
                           MainRequired \cup MainOptional)
               /\ ShapedBy(ReportOf(r).wind, PayloadOf(r).wind,
                           WindRequired \cup WindOptional)
               /\ Len(ReportOf(r).weather) = Len(PayloadOf(r).weather)
               /\ \A i \in 1..Len(PayloadOf(r).weather) :
                    ShapedBy(ReportOf(r).weather[i], PayloadOf(r).weather[i],
                             DescriptionRequired)

C10_Witness ==
    \E r \in Reqs :
        /\ Succeeded(r)
        /\ {"snow", "rain"} \subseteq DOMAIN PayloadOf(r)
        /\ "temp_kf" \in DOMAIN PayloadOf(r).main
        /\ "gust" \notin DOMAIN PayloadOf(r).wind
        /\ Len(geoAnswer[r].body) = 2

\* C11: with requests for different cities interleaved in every way, a
\* finished request has asked about its own city and its own coordinates, and
\* its status, location and report are those its own answers give: the match
\* of its city, the coordinates of its city, never another request's.
C11_OutcomeAsIfAlone ==
    \A r \in Reqs :
        (CurrentRequest(r) /\ Done(r))
            => LET own == GeocoderMatch(CityOf(r))
               IN  /\ geoCalls[r] = << [q |-> CityOf(r), limit |-> GeoLimit] >>
                   /\ geoAnswer[r].kind = "ok"
                        => fetchCalls[r] = << [endpoint |-> "weather",
                                               lat |-> own.lat, lon |-> own.lon] >>
                   /\ response[r].status =
                        (IF geoAnswer[r].kind # "ok" THEN 404
                         ELSE IF fetchAnswer[r].kind # "ok" THEN 504 ELSE 200)
                   /\ response[r].status = 200
                        => /\ ReportOf(r).location = [k \in LocationFields |-> own[k]]
                           /\ ReportOf(r).coord = [lat |-> own.lat, lon |-> own.lon]
                           /\ \A q \in Reqs \ {r} :
                                location[q] # None
                                    => ReportOf(r).location # location[q]

C11_Witness ==
    \E r \in Reqs : \E q \in Reqs \ {r} :
        /\ Done(r) /\ response[r].status = 200
        /\ Done(q) /\ response[q].status = 200
        /\ ReportOf(r).location # ReportOf(q).location

\* C16: two current-weather requests for the same city that got the same
\* answers from the upstream end with the same response, and each has issued
\* the geocoding call itself and, once the city resolved, the weather call
\* itself: the repetition is served by new calls, not from the first one.
C16_RepeatSameOutcomeAndCalls ==
    \A r \in Reqs : \A q \in Reqs \ {r} :
        ( /\ CurrentRequest(r) /\ Done(r) /\ Done(q)
          /\ path[q] = path[r]
          /\ geoAnswer[q] = geoAnswer[r]
          /\ fetchAnswer[q] = fetchAnswer[r] )
            => /\ response[q] = response[r]
               /\ geoCalls[r] = << [q |-> CityOf(r), limit |-> GeoLimit] >>
               /\ geoCalls[q] = geoCalls[r]
               /\ fetchCalls[q] = fetchCalls[r]
               /\ location[r] # None => Len(fetchCalls[r]) = 1

C16_Witness ==
    \E r \in Reqs : \E q \in Reqs \ {r} :
        /\ Succeeded(r) /\ Succeeded(q)
        /\ path[q] = path[r]
        /\ response[q] = response[r]
        /\ Len(geoCalls[q]) = 1 /\ Len(fetchCalls[q]) = 1

\* C13: GET /api/weather/ (an empty city segment) matches no route: it ends
\* at once with 404 and detail "Not Found", and no outbound call is made.
C13_EmptyCityIsFrameworkNotFound ==
    \A r \in Reqs :
        path[r] = <<"">>
            => /\ Done(r)
               /\ handler[r] = "not_found"
               /\ response[r] = [status |-> 404, detail |-> <<"Not Found">>,
                                 body |-> None]
               /\ geoCalls[r] = <<>>
               /\ fetchCalls[r] = <<>>

C13_Witness ==
    \E r \in Reqs : path[r] = <<"">> /\ response[r].status = 404

\* C19: a GET with one non-empty segment after /api/weather/ is answered by
\* main's get_city_weather, so a city with no match gets 404 and not the
\* router handler's 500; no request is answered by the router's get_weather,
\* and the router's monthly handler answers exactly the monthly paths.
C19_MainHandlerTakesCityPath ==
    \A r \in Reqs :
        pc[r] # "idle"
            => /\ CurrentRequest(r) => handler[r] = "get_city_weather"
               /\ handler[r] # "get_weather"
               /\ handler[r] = "get_monthly_weather" <=> MonthlyRequest(r)
               /\ (CurrentRequest(r) /\ ZeroMatches(r)) => response[r].status = 404

C19_Witness ==
    \E r \in Reqs : \E q \in Reqs :
        /\ CurrentRequest(r) /\ ZeroMatches(r) /\ Done(r)
        /\ handler[r] = "get_city_weather"
        /\ MonthlyRequest(q) /\ Done(q) /\ handler[q] = "get_monthly_weather"

\* The text of the exception the failed weather call raised in get_weather.
UpstreamExceptionText(r) ==
    IF fetchAnswer[r].kind = "status"
    THEN StrOf(Exc("HTTPStatusError"))
    ELSE StrOf(Exc("ConnectError"))

\* C14: a current-weather request whose weather fetch failed otherwise than
\* by a timeout ends with 500, and the detail of that response is not just
\* the text of the upstream exception.
C14_FailureDetailIsGeneric ==
    \A r \in Reqs :
        (CurrentRequest(r) /\ Done(r) /\ fetchAnswer[r].kind \in {"status", "transport"})
            => /\ response[r].status = 500
               /\ response[r].detail # <<UpstreamExceptionText(r)>>

\* The local calendar date of the i-th entry of the returned report.
EntryDate(r, i) == DateOf(DaysOf(r)[i].dt, tzOffset)

\* C18: a report returned by get_monthly_forecast has cnt equal to the length
\* of its list, entries on pairwise distinct calendar dates, cnt at most the
\* number of samples received, and cnt 0 exactly when no sample was received.
C18_ReportCountsDistinctDays ==
    \A r \in Reqs :
        (MonthlyRequest(r) /\ Done(r) /\ fetched[r] # None)
            => /\ fetched[r].cnt = Len(DaysOf(r))
               /\ \A i \in 1..Len(DaysOf(r)) : \A j \in 1..Len(DaysOf(r)) :
                    i # j => EntryDate(r, i) # EntryDate(r, j)
               /\ fetched[r].cnt <= Len(SamplesOf(r))
               /\ fetched[r].cnt = 0 <=> SamplesOf(r) = <<>>

C18_Witness ==
    \E r \in Reqs :
        /\ MonthlyRequest(r) /\ Done(r) /\ fetched[r] # None
        /\ fetched[r].cnt >= 2
        /\ fetched[r].cnt < Len(SamplesOf(r))

EmptyForecastReport ==
    \E r \in Reqs :
        /\ MonthlyRequest(r) /\ Done(r) /\ fetched[r] # None
        /\ fetched[r].cnt = 0

\* A payload with every field the schema requires, nested ones included.
WellFormedPayload(r) ==
    /\ fetchAnswer[r].kind = "ok"
    /\ WeatherDataRequired \subseteq DOMAIN PayloadOf(r)
    /\ MainRequired \subseteq DOMAIN PayloadOf(r).main
    /\ WindRequired \subseteq DOMAIN PayloadOf(r).wind
    /\ \A i \in 1..Len(PayloadOf(r).weather) :
            DescriptionRequired \subseteq DOMAIN PayloadOf(r).weather[i]

\* C15: a current-weather request for a non-empty city that the geocoder
\* resolved and whose weather fetch returned a well-formed payload ends with
\* 200 and a report in which main and weather are present.
C15_ResolvedCityGetsReport ==
    \A r \in Reqs :
        (CurrentRequest(r) /\ Done(r) /\ location[r] # None /\ WellFormedPayload(r))
            => /\ response[r].status = 200
               /\ {"main", "weather"} \subseteq DOMAIN ReportOf(r)
               /\ MainRequired \subseteq DOMAIN ReportOf(r).main
               /\ Len(ReportOf(r).weather) = Len(PayloadOf(r).weather)

C15_Witness ==
    \E r \in Reqs :
        /\ CurrentRequest(r) /\ Done(r) /\ location[r] # None
        /\ WellFormedPayload(r)
        /\ "snow" \in DOMAIN PayloadOf(r)
        /\ "gust" \notin DOMAIN PayloadOf(r).wind
        /\ response[r].status = 200

\* C12: when the provider rejects the coordinates of the weather call with a
\* non-success status, the call having been issued with the coordinates as
\* resolved, get_weather raises an HTTPException of status 500 and returns
\* no report, and the request does not end with 200: it ends with 500.
C12_RejectedCoordinatesRaise500 ==
    \A r \in Reqs :
        (CurrentRequest(r) /\ Done(r) /\ fetchAnswer[r].kind = "status")
            => /\ fetchCalls[r] = << [endpoint |-> "weather",
                                      lat |-> location[r].lat,
                                      lon |-> location[r].lon] >>
               /\ main_get_weather(fetchAnswer[r]).raised
               /\ main_get_weather(fetchAnswer[r]).exc.type = "HTTPException"
               /\ main_get_weather(fetchAnswer[r]).exc.status = 500
               /\ fetched[r] = None
               /\ response[r].status = 500

C12_Witness ==
    \E r \in Reqs :
        /\ CurrentRequest(r) /\ Done(r)
        /\ location[r] # None
        /\ location[r].lat = 1000 /\ location[r].lon = 1000
        /\ fetchAnswer[r].kind = "status"
        /\ response[r].status = 500

\* C17: whenever the geocoding answer is a non-empty list, get_location
\* returns the lat, lon, name and country of its first element, the geocode
\* step of WeatherService.get_weather takes the lat and lon of that element,
\* and the following call is made for them, whatever the other elements are
\* and however many there are.
C17_FirstMatchIsTaken ==
    \A r \in Reqs :
        (GeoAnswered(r) /\ geoAnswer[r].kind = "ok" /\ geoAnswer[r].body # <<>>)
            => /\ WeatherService_get_location(geoAnswer[r]) = FirstMatchFields(r)
               /\ location[r] = FirstMatchFields(r)
               /\ ResolvedLocation("get_weather", geoAnswer[r]).lat
                    = geoAnswer[r].body[1].lat
               /\ ResolvedLocation("get_weather", geoAnswer[r]).lon
                    = geoAnswer[r].body[1].lon
               /\ Len(fetchCalls[r]) = 1
               /\ fetchCalls[r][1].lat = geoAnswer[r].body[1].lat
               /\ fetchCalls[r][1].lon = geoAnswer[r].body[1].lon

C17_Witness ==
    \E r \in Reqs :
        /\ GeoAnswered(r) /\ geoAnswer[r].kind = "ok"
        /\ Len(geoAnswer[r].body) = GeoLimit
        /\ geoAnswer[r].body[2] # geoAnswer[r].body[1]
        /\ geoAnswer[r].body[GeoLimit] # geoAnswer[r].body[1]
        /\ location[r] = FirstMatchFields(r)

====
